---- MODULE Spec2Model ----
(***************************************************************************)
(* A model of package route (route.go): a tree of Router nodes built by    *)
(* Route / FuncE / Func and searched by lookupPath / lookup.               *)
(*                                                                         *)
(* Strings are sequences of one-character strings, so that strings.Split,  *)
(* strings.Join, the leading-slash strip of Route and lookupPath and the   *)
(* ":" prefix test of route are computed character by character.           *)
(* Pointers to Router are indices into the sequence `routers`; index 1 is  *)
(* the zero Router the program starts from, 0 is the nil pointer.          *)
(***************************************************************************)
EXTENDS Naturals, Sequences, FiniteSets, TLC

VARIABLES routers, last, before

vars == <<routers, last, before>>

\* ------------------------------------------------------------------ bounds

\* Longest path string handed to Route.
MaxLen == 2
\* Longest path string handed to lookupPath.
MaxPathLen == 3
\* Largest number of Router nodes the tree may grow to.
MaxNodes == 3

\* ----------------------------------------------------------------- strings

Chars == {"/", ":", "*", "a"}

StringsUpTo(n) == UNION {[1..k -> Chars] : k \in 0..n}

RoutePaths == StringsUpTo(MaxLen)

\* Every string that begins with "/", and the short ones that do not.
LookupPaths ==
    {p \in StringsUpTo(MaxPathLen) : Len(p) <= 1 \/ p[1] = "/"}

\* strings.Split(s, "/"): always at least one part; Split("") = [""]
RECURSIVE Split(_)
Split(s) ==
    IF s = <<>> THEN << <<>> >>
    ELSE LET rest == Split(Tail(s))
         IN  IF Head(s) = "/"
             THEN << <<>> >> \o rest
             ELSE << <<Head(s)>> \o Head(rest) >> \o Tail(rest)

\* strings.Join(parts, "/")
RECURSIVE Join(_)
Join(parts) ==
    IF Len(parts) = 0 THEN <<>>
    ELSE IF Len(parts) = 1 THEN parts[1]
    ELSE parts[1] \o <<"/">> \o Join(Tail(parts))

\* ------------------------------------------------------------------- nodes

Nil == 0

NoHandler == <<>>

EmptyMatchers == <<>>

\* &Router{}: the zero value of the struct
NewRouter ==
    [matchers |-> EmptyMatchers, varName |-> <<>>, varRouter |-> Nil,
     handler |-> NoHandler, fallbackRouter |-> Nil]

\* ----------------------------------------------------------- capture maps

\* A map[string]string: nil, or a finite function from keys to values.
NilEnv == [nil |-> TRUE, m |-> <<>>]

EmptyEnv == [nil |-> FALSE, m |-> <<>>]

\* A map the caller has already used (TestVar reuses one map across lookups).
UsedEnv == [nil |-> FALSE, m |-> (<<"a">> :> <<"a", "a">>)]

Envs == {NilEnv, EmptyEnv, UsedEnv}

\* env[k] = v on a non-nil map
Put(env, k, v) ==
    [nil |-> FALSE,
     m |-> [x \in DOMAIN env.m \cup {k} |-> IF x = k THEN v ELSE env.m[x]]]

\* ------------------------------------------------------------------ lookup

Star == <<"*">>

Call(r, path, env, h, out, panic) ==
    [r |-> r, path |-> path, env |-> env, h |-> h, out |-> out, panic |-> panic]

Result(h, env, panic, calls) ==
    [h |-> h, env |-> env, panic |-> panic, calls |-> calls]

\* lookupFallback with the wildcard capture taken from path[1:], not path.
lookupFallbackTail(T, r, path, env, calls) ==
    IF T[r].fallbackRouter # Nil
    THEN IF env.nil
         THEN Result(NoHandler, env, TRUE, calls)
         ELSE Result(T[T[r].fallbackRouter].handler,
                     Put(env, Star, Join(Tail(path))), FALSE, calls)
    ELSE Result(NoHandler, env, FALSE, calls)

\* The fallback branch of lookup: env["*"] = Join(path); return the
\* fallback router's own handler.
lookupFallback(T, r, path, env, calls) ==
    IF T[r].fallbackRouter # Nil
    THEN IF env.nil
         THEN Result(NoHandler, env, TRUE, calls)
         ELSE Result(T[T[r].fallbackRouter].handler,
                     Put(env, Star, Join(path)), FALSE, calls)
    ELSE Result(NoHandler, env, FALSE, calls)

\* varGuard without the test that the segment is not empty.
varGuardAny(T, r, path) == T[r].varRouter # Nil

\* The guard of the variable branch of lookup.
varGuard(T, r, path) == path[1] # <<>> /\ T[r].varRouter # Nil

\* lookup with the variable child tried before the literal child.
RECURSIVE lookupVarFirst(_, _, _, _)
lookupVarFirst(T, r, path, env) ==
    LET body ==
          IF Len(path) = 0
          THEN Result(T[r].handler, env, FALSE, {})
          ELSE IF path[1] # <<>> /\ T[r].varRouter # Nil /\ env.nil
          THEN Result(NoHandler, env, TRUE, {})
          ELSE
            LET var == IF path[1] # <<>> /\ T[r].varRouter # Nil
                       THEN lookupVarFirst(T, T[r].varRouter, Tail(path),
                                           Put(env, T[r].varName, path[1]))
                       ELSE Result(NoHandler, env, FALSE, {})
            IN  IF var.panic \/ var.h # NoHandler THEN var
                ELSE
                  LET lit == IF path[1] \in DOMAIN T[r].matchers
                             THEN lookupVarFirst(T, T[r].matchers[path[1]],
                                                 Tail(path), var.env)
                             ELSE Result(NoHandler, var.env, FALSE, {})
                  IN  IF lit.panic \/ lit.h # NoHandler
                      THEN [lit EXCEPT !.calls = @ \cup var.calls]
                      ELSE IF T[r].fallbackRouter # Nil
                      THEN IF lit.env.nil
                           THEN Result(NoHandler, lit.env, TRUE,
                                       lit.calls \cup var.calls)
                           ELSE Result(T[T[r].fallbackRouter].handler,
                                       Put(lit.env, <<"*">>, Join(path)), FALSE,
                                       lit.calls \cup var.calls)
                      ELSE Result(NoHandler, lit.env, FALSE,
                                  lit.calls \cup var.calls)
    IN  [body EXCEPT !.calls =
            @ \cup {Call(r, path, env, body.h, body.env, body.panic)}]

\* r.lookup(path, env).  The result carries the handler (NoHandler for nil),
\* the capture map as the call leaves it, whether the call panicked (a write
\* to a nil map), and the set of activations of lookup the call made.
RECURSIVE lookup(_, _, _, _)
lookup(T, r, path, env) ==
    LET body ==
          IF Len(path) = 0
          THEN Result(T[r].handler, env, FALSE, {})
          ELSE
            LET lit == IF path[1] \in DOMAIN T[r].matchers
                       THEN lookup(T, T[r].matchers[path[1]], Tail(path), env)
                       ELSE Result(NoHandler, env, FALSE, {})
            IN  IF lit.panic \/ lit.h # NoHandler THEN lit
                ELSE
                  IF varGuard(T, r, path)
                  THEN IF lit.env.nil
                       THEN Result(NoHandler, lit.env, TRUE, lit.calls)
                       ELSE
                         LET var == lookup(T, T[r].varRouter, Tail(path),
                                           Put(lit.env, T[r].varName, path[1]))
                         IN  IF var.panic \/ var.h # NoHandler
                             THEN [var EXCEPT !.calls = @ \cup lit.calls]
                             ELSE lookupFallback(T, r, path, var.env,
                                                 lit.calls \cup var.calls)
                  ELSE lookupFallback(T, r, path, lit.env, lit.calls)
    IN  [body EXCEPT !.calls =
            @ \cup {Call(r, path, env, body.h, body.env, body.panic)}]

\* lookupPath with a trailing "/" dropped before splitting.
lookupPathTrimmed(T, r, path, env) ==
    IF Len(path) = 0 \/ path[1] # "/"
    THEN Result(NoHandler, env, TRUE, {})
    ELSE LET p == Tail(path)
             q == IF Len(p) > 0 /\ p[Len(p)] = "/"
                  THEN SubSeq(p, 1, Len(p) - 1) ELSE p
         IN  lookup(T, r, Split(q), env)

\* r.lookupPath(path, env)
lookupPath(T, r, path, env) ==
    IF Len(path) = 0 \/ path[1] # "/"
    THEN Result(NoHandler, env, TRUE, {})
    ELSE lookup(T, r, Split(Tail(path)), env)

\* ------------------------------------------------------------------- route

Routed(T, ret, panic) == [T |-> T, ret |-> ret, panic |-> panic]

\* route descending through the "*" node like through any other child.
RECURSIVE routeThroughStar(_, _, _)
routeThroughStar(T, r, parts) ==
    IF Len(parts) = 0 THEN Routed(T, r, FALSE)
    ELSE
      LET part == Head(parts) IN
      IF Len(part) > 0 /\ part[1] = ":"
      THEN LET name == Tail(part) IN
           IF T[r].varName # <<>> /\ name # T[r].varName
           THEN Routed(T, Nil, TRUE)
           ELSE LET T2 == IF T[r].varRouter = Nil
                          THEN Append([T EXCEPT ![r].varName = name,
                                                ![r].varRouter = Len(T) + 1],
                                      NewRouter)
                          ELSE T
                IN  routeThroughStar(T2, T2[r].varRouter, Tail(parts))
      ELSE IF part = <<"*">>
      THEN IF T[r].fallbackRouter # Nil
           THEN Routed(T, Nil, TRUE)
           ELSE routeThroughStar(
                    Append([T EXCEPT ![r].fallbackRouter = Len(T) + 1], NewRouter),
                    Len(T) + 1, Tail(parts))
      ELSE LET T2 == IF part \in DOMAIN T[r].matchers
                     THEN T
                     ELSE Append([T EXCEPT ![r].matchers =
                                      (part :> (Len(T) + 1)) @@ @],
                                 NewRouter)
           IN  routeThroughStar(T2, T2[r].matchers[part], Tail(parts))

\* r.route(parts): the tree after the call, the node returned, and whether
\* the call panicked (the tree keeps what was built before the panic).
RECURSIVE route(_, _, _)
route(T, r, parts) ==
    IF Len(parts) = 0 THEN Routed(T, r, FALSE)
    ELSE
      LET part == Head(parts) IN
      IF Len(part) > 0 /\ part[1] = ":"
      THEN LET name == Tail(part) IN
           IF T[r].varName # <<>> /\ name # T[r].varName
           THEN Routed(T, Nil, TRUE)
           ELSE LET T2 == IF T[r].varRouter = Nil
                          THEN Append([T EXCEPT ![r].varName = name,
                                                ![r].varRouter = Len(T) + 1],
                                      NewRouter)
                          ELSE T
                IN  route(T2, T2[r].varRouter, Tail(parts))
      ELSE IF part = Star
      THEN IF T[r].fallbackRouter # Nil
           THEN Routed(T, Nil, TRUE)
           ELSE Routed(Append([T EXCEPT ![r].fallbackRouter = Len(T) + 1],
                              NewRouter),
                       Len(T) + 1, FALSE)
      ELSE LET T2 == IF part \in DOMAIN T[r].matchers
                     THEN T
                     ELSE Append([T EXCEPT ![r].matchers =
                                      (part :> (Len(T) + 1)) @@ @],
                                 NewRouter)
           IN  route(T2, T2[r].matchers[part], Tail(parts))

\* Route with a trailing "/" dropped as well as the leading one.
RouteOfTrimmed(T, r, path) ==
    LET p == IF Len(path) > 0 /\ path[1] = "/" THEN Tail(path) ELSE path
        q == IF Len(p) > 0 /\ p[Len(p)] = "/"
             THEN SubSeq(p, 1, Len(p) - 1) ELSE p
    IN  route(T, r, Split(q))

\* r.Route(path)
RouteOf(T, r, path) ==
    route(T, r, Split(IF Len(path) > 0 /\ path[1] = "/" THEN Tail(path) ELSE path))

\* ---------------------------------------------------------------- handlers

\* Functions handed to FuncE.
HandlersE == {<<"F1">>}

\* Functions handed to Func.
HandlersPlain == {<<"myHandler">>}

\* The closure Func builds around f.
Wrap(f) == <<"Func">> \o f

\* ------------------------------------------------------------------- state

NoOp ==
    [op |-> "none", r |-> Nil, path |-> <<>>, env |-> NilEnv, f |-> NoHandler,
     pre |-> <<>>, ret |-> Nil, h |-> NoHandler, out |-> NilEnv,
     panic |-> FALSE, calls |-> {}]

Init ==
    /\ routers = <<NewRouter>>
    /\ last = NoOp
    /\ before = NoOp

\* The record of a call: its receiver and arguments, the tree it started
\* from, and what it returned.
Op(op, r, path, env, f, pre, ret, res) ==
    [op |-> op, r |-> r, path |-> path, env |-> env, f |-> f, pre |-> pre,
     ret |-> ret, h |-> res.h, out |-> res.env, panic |-> res.panic,
     calls |-> res.calls]

NoResult(panic) == Result(NoHandler, NilEnv, panic, {})

\* `last` is the call just made; `before` is the Route call whose returned
\* node that call was made on (a chained call such as r.Route(a).Route(b)).
\* With keep = FALSE the call is made without recording it.
Record(keep, op) ==
    /\ last' = IF keep \/ op.panic THEN op ELSE NoOp
    /\ before' = IF keep /\ last.op = "Route" /\ last.ret = op.r /\ op.op # "lookupPath"
                 THEN last ELSE NoOp

\* A call is made when no call is pending and the program has not panicked.
Idle == last.op # "lookupPath" /\ ~last.panic

\* r.Route(path)
Route(r, path, keep) ==
    LET res == RouteOf(routers, r, path) IN
    /\ Idle
    /\ Len(res.T) <= MaxNodes
    /\ routers' = res.T
    /\ Record(keep, Op("Route", r, path, NilEnv, NoHandler, routers, res.ret,
                       NoResult(res.panic)))

\* r.FuncE(f)
FuncEOf(T, r, f) ==
    IF T[r].handler # NoHandler
    THEN Routed(T, Nil, TRUE)
    ELSE Routed([T EXCEPT ![r].handler = f], Nil, FALSE)

FuncE(r, f, keep) ==
    LET res == FuncEOf(routers, r, f) IN
    /\ Idle
    /\ routers' = res.T
    /\ Record(keep, Op("FuncE", r, <<>>, NilEnv, f, routers, Nil,
                       NoResult(res.panic)))

\* r.Func(f)
Func(r, f, keep) ==
    LET res == FuncEOf(routers, r, Wrap(f)) IN
    /\ Idle
    /\ routers' = res.T
    /\ Record(keep, Op("Func", r, <<>>, NilEnv, f, routers, Nil,
                       NoResult(res.panic)))

\* r.lookupPath(path, env), called on the root as ServeHTTP and the tests do
LookupPath(path, env) ==
    /\ Idle
    /\ UNCHANGED routers
    /\ Record(TRUE, Op("lookupPath", 1, path, env, NoHandler, routers, Nil,
                       lookupPath(routers, 1, path, env)))

\* The caller consumes the result of lookupPath (ServeHTTP calls the handler
\* or http.NotFound) and the router is ready for the next call.
Respond ==
    /\ last.op = "lookupPath"
    /\ ~last.panic
    /\ UNCHANGED routers
    /\ last' = NoOp
    /\ before' = NoOp

\* Construction of the tree, every call recorded.
Next ==
    \/ \E r \in 1..Len(routers), path \in RoutePaths : Route(r, path, TRUE)
    \/ \E r \in 1..Len(routers), f \in HandlersE : FuncE(r, f, TRUE)
    \/ \E r \in 1..Len(routers), f \in HandlersPlain : Func(r, f, TRUE)

Spec == Init /\ [][Next]_vars

\* Construction interleaved with lookups; only the lookups are recorded.
NextServe ==
    \/ \E r \in 1..Len(routers), path \in RoutePaths : Route(r, path, FALSE)
    \/ \E r \in 1..Len(routers), f \in HandlersE : FuncE(r, f, FALSE)
    \/ \E r \in 1..Len(routers), f \in HandlersPlain : Func(r, f, FALSE)
    \/ \E path \in LookupPaths, env \in Envs : LookupPath(path, env)
    \/ Respond

SpecServe == Init /\ [][NextServe]_vars

\* ------------------------------------------------- the shape of the tree

Nodes == 1..Len(routers)

Slash == <<"/">>

\* The parts Route(path) hands to route.
RouteParts(path) ==
    Split(IF Len(path) > 0 /\ path[1] = "/" THEN Tail(path) ELSE path)

HasStar(parts) == \E i \in 1..Len(parts) : parts[i] = Star

FirstStar(parts) ==
    CHOOSE i \in 1..Len(parts) :
        parts[i] = Star /\ \A j \in 1..(i - 1) : parts[j] # Star

Range(f) == {f[x] : x \in DOMAIN f}

Children(T, p) ==
    (Range(T[p].matchers) \cup {T[p].varRouter, T[p].fallbackRouter}) \ {Nil}

Parent(T, n) == CHOOSE p \in 1..Len(T) : n \in Children(T, p)

\* The edge from p to its child n: a literal segment, a variable or the "*".
EdgeTo(T, p, n) ==
    IF T[p].varRouter = n THEN [kind |-> 2, label |-> T[p].varName]
    ELSE IF T[p].fallbackRouter = n THEN [kind |-> 3, label |-> Star]
    ELSE [kind |-> 1,
          label |-> CHOOSE x \in DOMAIN T[p].matchers : T[p].matchers[x] = n]

\* The edges from the root down to n.
RECURSIVE Chain(_, _)
Chain(T, n) ==
    IF n = 1 THEN <<>>
    ELSE Append(Chain(T, Parent(T, n)), EdgeTo(T, Parent(T, n), n))

Depth(T, n) == Len(Chain(T, n))

\* n is m or lies below m
RECURSIVE Below(_, _, _)
Below(T, m, n) ==
    IF n = m THEN TRUE
    ELSE IF n = 1 THEN FALSE
    ELSE Below(T, m, Parent(T, n))

\* A route (the chain of a node) matches a segment sequence: literal edges
\* match their own segment, a variable edge any non-empty segment, and a
\* final "*" edge one or more remaining segments.
RouteMatches(chain, path) ==
    LET k == Len(chain) IN
    /\ \A i \in 1..(k - 1) : chain[i].kind # 3
    /\ IF k > 0 /\ chain[k].kind = 3 THEN Len(path) >= k ELSE Len(path) = k
    /\ \A i \in 1..k :
          \/ chain[i].kind = 1 /\ chain[i].label = path[i]
          \/ chain[i].kind = 2 /\ path[i] # <<>>
          \/ chain[i].kind = 3

\* The nodes that have a handler and whose route matches the path.
Candidates(T, path) ==
    {n \in 1..Len(T) :
        T[n].handler # NoHandler /\ RouteMatches(Chain(T, n), path)}

\* Route n comes before route m: at the first edge where they part, n takes
\* the literal before the variable before the wildcard.
Precedes(T, n, m) ==
    LET cn == Chain(T, n)
        cm == Chain(T, m)
    IN  \E i \in 1..Len(cn) :
           /\ i <= Len(cm)
           /\ \A j \in 1..(i - 1) : cn[j].kind = cm[j].kind
           /\ cn[i].kind < cm[i].kind

FirstMatch(T, path) ==
    CHOOSE n \in Candidates(T, path) :
        \A m \in Candidates(T, path) \ {n} : Precedes(T, n, m)

\* The bindings a route makes for a path, the deeper edge winning a key.
RECURSIVE Bindings(_, _, _)
Bindings(chain, path, i) ==
    IF i > Len(chain) THEN <<>>
    ELSE LET deeper == Bindings(chain, path, i + 1)
             mine == IF chain[i].kind = 2 THEN (chain[i].label :> path[i])
                     ELSE IF chain[i].kind = 3
                     THEN (Star :> Join(SubSeq(path, i, Len(path))))
                     ELSE <<>>
         IN  deeper @@ mine

IsLookup == last.op = "lookupPath" /\ Len(last.path) > 0 /\ last.path[1] = "/"

LookupParts == Split(Tail(last.path))

\* The activation of lookup on node n, if the last lookup made one.
CallsOn(n) == {c \in last.calls : c.r = n}

\* --------------------------------------------------------------- claims

\* C1: a handler attached directly to the root Router is the handler that
\* lookup of "/" returns.
C1_RootHandlerHandlesSlash ==
    (last.op = "lookupPath" /\ last.path = Slash /\ ~last.env.nil
        /\ routers[1].handler # NoHandler)
    => last.h = routers[1].handler

\* C2 (as stated): r.Route(a).Route(b) returns the same node and leaves the
\* same tree as r.Route(a + "/" + b), for all paths a and b.
C2_ComposeIsConcat ==
    (last.op = "Route" /\ before.op = "Route")
    => RouteOf(before.pre, before.r, before.path \o Slash \o last.path)
         = Routed(routers, last.ret, last.panic)

\* C2 (amended): r.Route(a).Route(b) returns the same node and leaves the
\* same tree as r.Route(a + "/" + b) (or both panic on the same tree) when a
\* is not empty, b does not begin with "/" and a has no "*" segment.
C2_ComposeIsConcatAmended ==
    (/\ last.op = "Route" /\ before.op = "Route"
     /\ before.path # <<>>
     /\ (last.path = <<>> \/ last.path[1] # "/")
     /\ ~HasStar(RouteParts(before.path)))
    => RouteOf(before.pre, before.r, before.path \o Slash \o last.path)
         = Routed(routers, last.ret, last.panic)

C2_Witness ==
    /\ last.op = "Route" /\ before.op = "Route" /\ ~last.panic
    /\ before.path = <<":", "a">>
    /\ last.path = <<>>
    /\ Len(routers) = Len(before.pre) + 2

\* C3: once a variable child named n1 exists at a node, registering a
\* segment ":n2" with n2 # n1 at that node panics.
C3_VarConflictPanics ==
    (/\ last.op = "Route"
     /\ Len(RouteParts(last.path)[1]) > 0
     /\ RouteParts(last.path)[1][1] = ":"
     /\ last.pre[last.r].varRouter # Nil
     /\ Tail(RouteParts(last.path)[1]) # last.pre[last.r].varName)
    => last.panic

\* C4: lookupPath of a path that begins with "/" never panics, whatever the
\* tree and also with a nil capture map.
C4_LookupNeverPanics == IsLookup => ~last.panic

\* C5: when a lookup that started with an empty capture map returns a
\* handler, the map holds exactly the bindings of the route that matched.
C5_NoStaleCaptures ==
    (IsLookup /\ last.env = EmptyEnv /\ ~last.panic /\ last.h # NoHandler)
    => last.out.m = Bindings(Chain(routers, FirstMatch(routers, LookupParts)),
                             LookupParts, 1)

\* The literal and the variable branch of activation c yielded no handler.
BranchesFail(c) ==
    /\ \A d \in last.calls :
          (/\ c.path[1] \in DOMAIN routers[c.r].matchers
           /\ d.r = routers[c.r].matchers[c.path[1]]) => d.h = NoHandler
    /\ \A d \in last.calls : d.r = routers[c.r].varRouter => d.h = NoHandler

\* C6: in every lookup that returns, an activation on a node N that has a
\* wildcard child with handler h, with k >= 1 segments left that N's literal
\* and variable branches do not match, returns h with captures["*"] the k
\* segments joined by "/"; an activation with no segments left returns N's
\* own handler (or none) and leaves the captures alone.
C6_WildcardTakesRemainder ==
    (IsLookup /\ ~last.panic)
    => \A c \in last.calls :
          /\ (/\ Len(c.path) >= 1
              /\ routers[c.r].fallbackRouter # Nil
              /\ routers[routers[c.r].fallbackRouter].handler # NoHandler
              /\ BranchesFail(c))
             => /\ c.h = routers[routers[c.r].fallbackRouter].handler
                /\ Star \in DOMAIN c.out.m
                /\ c.out.m[Star] = Join(c.path)
          /\ Len(c.path) = 0
             => /\ c.h = routers[c.r].handler
                /\ c.out = c.env

C6_Witness ==
    /\ IsLookup /\ ~last.panic /\ last.h # NoHandler
    /\ \E c \in last.calls :
          /\ Len(c.path) = 2
          /\ routers[c.r].fallbackRouter # Nil
          /\ routers[c.r].varRouter # Nil
          /\ c.h = routers[routers[c.r].fallbackRouter].handler
          /\ c.out.m[Star] = <<"a", "/">>

\* C7 (as stated): when the segment at a variable position is not empty and
\* the rest of the path matches below the variable child, the lookup
\* succeeds with captures[name] equal to that segment.
C7_VarCapturesSegment ==
    (IsLookup /\ ~last.panic)
    => \A c \in last.calls :
          (/\ Len(c.path) >= 1
           /\ c.path[1] # <<>>
           /\ routers[c.r].varRouter # Nil
           /\ lookup(routers, routers[c.r].varRouter, Tail(c.path),
                     Put(c.env, routers[c.r].varName, c.path[1])).h # NoHandler)
          => /\ c.h # NoHandler
             /\ routers[c.r].varName \in DOMAIN c.out.m
             /\ c.out.m[routers[c.r].varName] = c.path[1]

\* No node reached below the variable child of c.r writes the key `name`.
NoRebind(c, name) ==
    \A e \in last.calls :
       (e.r # c.r /\ Below(routers, routers[c.r].varRouter, e.r) /\ Len(e.path) >= 1)
       => /\ ~(routers[e.r].varRouter # Nil /\ routers[e.r].varName = name)
          /\ ~(routers[e.r].fallbackRouter # Nil /\ name = Star)

\* C7 (amended): in every lookup that returns,
\*  (1) when the segment at a variable position is not empty, the literal
\*      child for it (if any) yields no handler and the rest of the path
\*      matches below the variable child, the activation returns that handler
\*      with captures[name] equal to the segment, unless a node reached below
\*      the variable child has a variable child of the same name or (for the
\*      name "*") a wildcard child;
\*  (2) when the segment is empty the variable child is not entered;
\*  (3) no key other than "*" is newly bound to the empty string;
\*  (4) an activation whose segment is empty and whose node has neither a
\*      literal child for "" nor a wildcard child returns no handler and
\*      leaves the capture map as it was.
C7_VarCapturesSegmentAmended ==
    (IsLookup /\ ~last.panic)
    => /\ \A c \in last.calls :
            /\ (/\ Len(c.path) >= 1
                /\ c.path[1] # <<>>
                /\ routers[c.r].varRouter # Nil
                /\ \A d \in last.calls :
                      (/\ c.path[1] \in DOMAIN routers[c.r].matchers
                       /\ d.r = routers[c.r].matchers[c.path[1]])
                      => d.h = NoHandler
                /\ \E d \in CallsOn(routers[c.r].varRouter) : d.h # NoHandler)
               => /\ \A d \in CallsOn(routers[c.r].varRouter) :
                        c.h = d.h /\ c.out = d.out /\ last.out = c.out
                  /\ NoRebind(c, routers[c.r].varName)
                     => /\ routers[c.r].varName \in DOMAIN c.out.m
                        /\ c.out.m[routers[c.r].varName] = c.path[1]
            /\ (Len(c.path) >= 1 /\ c.path[1] = <<>>)
               => /\ CallsOn(routers[c.r].varRouter) = {}
                  /\ (/\ <<>> \notin DOMAIN routers[c.r].matchers
                      /\ routers[c.r].fallbackRouter = Nil)
                     => c.h = NoHandler /\ c.out = c.env
       /\ \A k \in DOMAIN last.out.m :
            (k # Star /\ last.out.m[k] = <<>>)
            => (k \in DOMAIN last.env.m /\ last.env.m[k] = <<>>)

C7_Witness ==
    /\ IsLookup /\ ~last.panic /\ last.h # NoHandler
    /\ last.path = <<"/", "a", "/">>
    /\ \E c \in last.calls :
          /\ c.r = 1
          /\ routers[1].varRouter # Nil
          /\ routers[1].varName = <<"a">>
          /\ \E d \in CallsOn(routers[1].varRouter) : d.h # NoHandler
          /\ c.env = EmptyEnv
          /\ c.out.m[<<"a">>] = <<"a">>

\* The tree holds literal routes only.
LiteralOnly ==
    \A n \in Nodes : routers[n].varRouter = Nil /\ routers[n].fallbackRouter = Nil

Labels(chain) == [i \in 1..Len(chain) |-> chain[i].label]

\* C8: in a tree of literal routes only, lookup of q returns a handler iff
\* the segments of q equal, one for one, the segments of a registered path
\* that has a handler; it returns that handler and writes no capture.
C8_LiteralExact ==
    (IsLookup /\ LiteralOnly)
    => LET M == {n \in Nodes : /\ routers[n].handler # NoHandler
                                /\ Labels(Chain(routers, n)) = LookupParts}
       IN  /\ ~last.panic
           /\ last.out = last.env
           /\ M = {} => last.h = NoHandler
           /\ \A n \in M : last.h = routers[n].handler

C8_Witness ==
    /\ IsLookup /\ LiteralOnly
    /\ last.path = <<"/", "a", "/">>
    /\ last.h # NoHandler
    /\ \E n \in Nodes : routers[n].handler # NoHandler /\ routers[n].handler # last.h

\* C9 (as stated): Route("p/*/s1/.../sk") with k >= 1 appends s1..sk below
\* the wildcard node and returns the node k levels below it.
C9_SegmentsAfterStarAppended ==
    (/\ last.op = "Route" /\ ~last.panic
     /\ HasStar(RouteParts(last.path))
     /\ FirstStar(RouteParts(last.path)) < Len(RouteParts(last.path)))
    => /\ Depth(routers, last.ret)
            = Depth(routers, last.r) + Len(RouteParts(last.path))
       /\ routers[Parent(routers, last.ret)].fallbackRouter # last.ret

\* C9 (amended): the segments that follow a "*" segment inside one path
\* string are accepted and discarded: Route("p/*/s1/.../sk") with k >= 1
\* returns the wildcard node itself, as Route("p/*") does, and builds nothing
\* below it.
C9_SegmentsAfterStarDropped ==
    (/\ last.op = "Route" /\ ~last.panic
     /\ HasStar(RouteParts(last.path))
     /\ FirstStar(RouteParts(last.path)) < Len(RouteParts(last.path)))
    => /\ Depth(routers, last.ret)
            = Depth(routers, last.r) + FirstStar(RouteParts(last.path))
       /\ routers[Parent(routers, last.ret)].fallbackRouter = last.ret
       /\ routers[last.ret] = NewRouter
       /\ Len(routers) <= Len(last.pre) + FirstStar(RouteParts(last.path))

C9_Witness ==
    /\ last.op = "Route" /\ ~last.panic
    /\ last.path = <<"*", "/">>
    /\ last.ret = Len(routers)

\* C10: every lookup that returns yields the handler of the first route, in
\* literal-before-variable-before-wildcard order, that has a handler and
\* matches the whole path, and no handler exactly when there is no such
\* route.
C10_FirstMatchInOrder ==
    (IsLookup /\ ~last.panic)
    => IF Candidates(routers, LookupParts) = {}
       THEN last.h = NoHandler
       ELSE last.h = routers[FirstMatch(routers, LookupParts)].handler

C10_Witness ==
    /\ IsLookup /\ ~last.panic /\ last.h # NoHandler
    /\ Cardinality(Candidates(routers, LookupParts)) >= 2
    /\ \E n \in Candidates(routers, LookupParts) : routers[n].handler # last.h

TypeOK == Len(routers) <= MaxNodes
====
